---- MODULE Spec2Model ----
(***************************************************************************)
(* Model of the directory-size scanner and batch deleter of                *)
(* src-tauri/src/main.rs (unix, non-macOS build):                          *)
(*   - scan_directory_streaming / cancel_scan and the background scan      *)
(*     thread, with the parallel walker scan_directory_recursive modelled  *)
(*     as one frame per visited path, one step per access to the shared    *)
(*     ScanState (each lock acquisition or atomic load is one step);       *)
(*   - build_limited_depth_node (the snapshotter), a pure function;        *)
(*   - delete_files_batch.                                                 *)
(* The filesystem is static during a scan.  Option<T> is a sequence of     *)
(* length 0 (None) or 1 (Some).                                            *)
(***************************************************************************)
EXTENDS Integers, Sequences, FiniteSets, TLC

\* ------------------------------------------------------------ constants
\* main.rs:19 is 10000; scaled down so that the threshold is reached.
BATCH_SIZE == 2
MAX_DEPTH == 100
PATH_UPDATE_INTERVAL == 10

\* Start requests the environment issues on the one-file filesystem.
MaxScans == 2

ScanIds == 1..MaxScans

None == <<>>
Some(x) == <<x>>

\* ------------------------------------------------------------ filesystem
\* A filesystem is a table of objects keyed by inode.  A directory lists
\* entries [name, ino, canon]: a hard entry has canon = <<>> (its canonical
\* path is the directory's canonical path plus the name); a symbolic link
\* carries the canonical path of its target, and ino = 0 when it dangles.
RootPath == <<"r">>
MissingPath == <<"nx">>

File(sz) == [dir |-> FALSE, size |-> sz, readable |-> TRUE, entries |-> <<>>]
Dir(es) == [dir |-> TRUE, size |-> 0, readable |-> TRUE, entries |-> es]
NoReadDir == [dir |-> TRUE, size |-> 0, readable |-> FALSE, entries |-> <<>>]
Hard(n, i) == [name |-> n, ino |-> i, canon |-> <<>>]
Sym(n, i, c) == [name |-> n, ino |-> i, canon |-> c]
Disk(m, t, a) == [mount_point |-> m, total_space |-> t, available_space |-> a]

\* root{A{a1:100}, f1:50}
FsScn ==
    [objs |-> (1 :> Dir(<<Hard("A", 2), Hard("f1", 4)>>)) @@ (2 :> Dir(<<Hard("a1", 3)>>))
              @@ (3 :> File(100)) @@ (4 :> File(50)),
     is_root |-> FALSE, disks |-> <<>>]

\* a mount point holding two hard links h1, h2 to one file of 7 bytes
FsHl ==
    [objs |-> (1 :> Dir(<<Hard("h1", 2), Hard("h2", 2)>>)) @@ (2 :> File(7)),
     is_root |-> TRUE, disks |-> <<Disk(<<"r">>, 40, 15)>>]

\* root{A{toB -> root/B}, B{toA -> root/A}}: the cycle A -> B -> A
FsCyc ==
    [objs |-> (1 :> Dir(<<Hard("A", 2), Hard("B", 3)>>))
              @@ (2 :> Dir(<<Sym("toB", 3, <<"r", "B">>)>>))
              @@ (3 :> Dir(<<Sym("toA", 2, <<"r", "A">>)>>)),
     is_root |-> FALSE, disks |-> <<>>]

\* root{C{A{toB -> root/C/B}, B{toA -> root/C/A}}}: the same cycle one level down
FsCyc2 ==
    [objs |-> (1 :> Dir(<<Hard("C", 4)>>)) @@ (4 :> Dir(<<Hard("A", 2), Hard("B", 3)>>))
              @@ (2 :> Dir(<<Sym("toB", 3, <<"r", "C", "B">>)>>))
              @@ (3 :> Dir(<<Sym("toA", 2, <<"r", "C", "A">>)>>)),
     is_root |-> FALSE, disks |-> <<>>]

\* root{D{U (unlistable), dead (dangling link), out -> /o (outside), g:4}}
FsBad ==
    [objs |-> (1 :> Dir(<<Hard("D", 2)>>))
              @@ (2 :> Dir(<<Hard("U", 3), Sym("dead", 0, <<>>),
                            Sym("out", 9, <<"o">>), Hard("g", 4)>>))
              @@ (3 :> NoReadDir) @@ (4 :> File(4)) @@ (9 :> File(8)),
     is_root |-> FALSE, disks |-> <<>>]

\* the chain root/d1/.../d8/up with up -> root: ten visits
FsDeep ==
    [objs |-> (1 :> Dir(<<Hard("d1", 2)>>)) @@ (2 :> Dir(<<Hard("d2", 3)>>))
              @@ (3 :> Dir(<<Hard("d3", 4)>>)) @@ (4 :> Dir(<<Hard("d4", 5)>>))
              @@ (5 :> Dir(<<Hard("d5", 6)>>)) @@ (6 :> Dir(<<Hard("d6", 7)>>))
              @@ (7 :> Dir(<<Hard("d7", 8)>>)) @@ (8 :> Dir(<<Hard("d8", 9)>>))
              @@ (9 :> Dir(<<Sym("up", 1, <<"r">>), Hard("z", 10)>>)) @@ (10 :> File(2)),
     is_root |-> FALSE, disks |-> <<>>]

\* the scan root is a regular file
FsOne ==
    [objs |-> (1 :> File(1)), is_root |-> FALSE, disks |-> <<>>]

\* root{X, Y, Z}: three empty directories, visited in parallel
FsTri ==
    [objs |-> (1 :> Dir(<<Hard("X", 2), Hard("Y", 3), Hard("Z", 4)>>))
              @@ (2 :> Dir(<<>>)) @@ (3 :> Dir(<<>>)) @@ (4 :> Dir(<<>>)),
     is_root |-> FALSE, disks |-> <<>>]

\* root{D{in:3, ext -> /o, extf -> /o/x}} with /o{x:8} outside the root
FsOut ==
    [objs |-> (1 :> Dir(<<Hard("D", 2)>>))
              @@ (2 :> Dir(<<Hard("in", 3), Sym("ext", 8, <<"o">>),
                            Sym("extf", 9, <<"o", "x">>)>>))
              @@ (3 :> File(3)) @@ (8 :> Dir(<<Hard("x", 9)>>)) @@ (9 :> File(8)),
     is_root |-> FALSE, disks |-> <<>>]

\* root{U (unlistable), f:2}
FsUnl ==
    [objs |-> (1 :> Dir(<<Hard("U", 2), Hard("f", 3)>>)) @@ (2 :> NoReadDir) @@ (3 :> File(2)),
     is_root |-> FALSE, disks |-> <<>>]

FsIds == {"scn", "hl", "cyc", "cyc2", "bad", "deep", "one"}

\* with the filesystem kept for the batch protocol
AllFsIds == FsIds \cup {"tri", "out", "unl"}

FsOf(id) ==
    CASE id = "scn" -> FsScn
      [] id = "hl" -> FsHl
      [] id = "cyc" -> FsCyc
      [] id = "cyc2" -> FsCyc2
      [] id = "bad" -> FsBad
      [] id = "deep" -> FsDeep
      [] id = "tri" -> FsTri
      [] id = "out" -> FsOut
      [] id = "unl" -> FsUnl
      [] OTHER -> FsOne

\* Start requests issued on a filesystem: overlapping scans only on FsOne.
Quota(id) == IF id = "one" THEN MaxScans ELSE 1

NoObj == [ok |-> FALSE, ino |-> 0, canon |-> <<>>]

EntryNamed(es, n) ==
    LET hits == {i \in 1..Len(es) : es[i].name = n}
    IN IF hits = {} THEN 0 ELSE CHOOSE i \in hits : TRUE

\* What a path resolves to, following symbolic links (fs::metadata and
\* fs::canonicalize both do): the object and its canonical path.
RECURSIVE ResolveIn(_, _)
ResolveIn(fs, path) ==
    IF path = RootPath THEN [ok |-> TRUE, ino |-> 1, canon |-> RootPath]
    ELSE IF Len(path) < 2 \/ path[1] # RootPath[1] THEN NoObj
    ELSE
        LET d == ResolveIn(fs, SubSeq(path, 1, Len(path) - 1))
            n == path[Len(path)]
        IN IF ~d.ok \/ ~fs.objs[d.ino].dir THEN NoObj
           ELSE LET i == EntryNamed(fs.objs[d.ino].entries, n)
                IN IF i = 0 THEN NoObj
                   ELSE LET e == fs.objs[d.ino].entries[i]
                        IN IF e.ino = 0 THEN NoObj
                           ELSE [ok |-> TRUE, ino |-> e.ino,
                                 canon |-> IF e.canon = <<>>
                                           THEN d.canon \o <<n>> ELSE e.canon]

\* The paths of a filesystem down to a depth no walk exceeds, and what each
\* resolves to, computed once.
RECURSIVE PathsWithin(_, _)
PathsWithin(fs, depth) ==
    IF depth = 0 THEN {RootPath}
    ELSE LET up == PathsWithin(fs, depth - 1)
         IN up \cup UNION {
                LET o == ResolveIn(fs, q)
                IN IF o.ok /\ fs.objs[o.ino].dir
                   THEN {Append(q, fs.objs[o.ino].entries[i].name) :
                            i \in 1..Len(fs.objs[o.ino].entries)}
                   ELSE {} : q \in up}

ResolveTable ==
    [id \in AllFsIds |->
        [q \in PathsWithin(FsOf(id), Cardinality(DOMAIN FsOf(id).objs) + 2) |->
            ResolveIn(FsOf(id), q)]]

Resolve(id, path) ==
    IF path \in DOMAIN ResolveTable[id] THEN ResolveTable[id][path]
    ELSE ResolveIn(FsOf(id), path)

\* Path::starts_with: component-wise prefix.
StartsWith(p, q) == Len(q) <= Len(p) /\ SubSeq(p, 1, Len(q)) = q

ParentIsRoot(p) == RootPath

\* Path::parent of a path with at least two components.
Parent(p) == SubSeq(p, 1, Len(p) - 1)

FileName(p) == p[Len(p)]

\* ------------------------------------------------------------ tree nodes
FileNode(n, sz, p, ch, d) ==
    [name |-> n, size |-> sz, path |-> p, children |-> ch, is_directory |-> d]

\* The zero-size childless leaf the guards return (main.rs:741, 755, 773).
GuardLeaf(p) == FileNode(FileName(p), 0, p, None, FALSE)

CompactFileNode(n, sz, ch, d) ==
    [name |-> n, size |-> sz, children |-> ch, is_directory |-> d]

RECURSIVE to_compact_node(_)
to_compact_node(node) ==
    CompactFileNode(node.name, node.size,
        IF node.children = None THEN None
        ELSE Some([i \in 1..Len(node.children[1]) |-> to_compact_node(node.children[1][i])]),
        node.is_directory)

RECURSIVE SumSizes(_)
SumSizes(nodes) ==
    IF nodes = <<>> THEN 0 ELSE nodes[1].size + SumSizes(Tail(nodes))

DirTotalSizeDropFirst(children) ==
    IF children = <<>> THEN 0 ELSE SumSizes(Tail(children))

\* main.rs:897
DirTotalSize(children) == SumSizes(children)

RECURSIVE build_limited_depth_node_off_by_one(_, _, _)
build_limited_depth_node_off_by_one(node, current_depth, max_depth) ==
    IF current_depth > max_depth
    THEN FileNode(node.name, node.size, node.path,
                  IF node.is_directory THEN Some(<<>>) ELSE None, node.is_directory)
    ELSE FileNode(node.name, node.size, node.path,
                  IF node.children = None THEN None
                  ELSE Some([i \in 1..Len(node.children[1]) |->
                          build_limited_depth_node_off_by_one(node.children[1][i],
                                                              current_depth + 1, max_depth)]),
                  node.is_directory)

RECURSIVE build_limited_depth_node_recursive(_, _, _)
build_limited_depth_node_recursive(node, current_depth, max_depth) ==
    IF current_depth >= max_depth
    THEN FileNode(node.name, node.size, node.path,
                  IF node.is_directory THEN Some(<<>>) ELSE None, node.is_directory)
    ELSE FileNode(node.name, node.size, node.path,
                  IF node.children = None THEN None
                  ELSE Some([i \in 1..Len(node.children[1]) |->
                          build_limited_depth_node_recursive(node.children[1][i],
                                                             current_depth + 1, max_depth)]),
                  node.is_directory)

build_limited_depth_node(node, max_depth) ==
    build_limited_depth_node_recursive(node, 0, max_depth)

\* ------------------------------------------------------------ state
VARIABLES
    fsid,                  \* the filesystem of this run (fixed)
    slot,                  \* CURRENT_SCAN_STATE: 0 = None, else the scan whose state it holds
    ack,                   \* per start request: "none", "ok" (Ok(())) or "err" (path missing)
    tpc,                   \* per scan: position of its background thread
    counter,               \* ScanState.counter
    scanned_size,          \* ScanState.scanned_size
    compact_batch_buffer,  \* ScanState.compact_batch_buffer
    visited_inodes,        \* ScanState.visited_inodes
    recursion_stack,       \* ScanState.recursion_stack
    cancelled,             \* ScanState.cancelled
    current_path,          \* ScanState.current_path
    path_update_counter,   \* ScanState.path_update_counter
    disk_info,             \* the thread's local disk_info
    root_node,             \* the thread's local limited_root (None until the walker returned Ok)
    fstats,                \* send_final_batch's local (total_items, total_size)
    frames,                \* per scan: path -> frame of the call scan_directory_recursive(path)
    msgs,                  \* per scan: what was sent on its channel, in order
    cancel_result,         \* what the last cancel_scan returned: "none", "ok", "err"
    cancel_acked,          \* history: cancel_scan flagged this scan before its completion message
    dpaths,                \* delete_files_batch: the request's paths
    dfs,                   \* delete_files_batch: the filesystem it works on
    dpc,                   \* delete_files_batch: position of the background thread
    dindex,                \* delete_files_batch: loop index (0-based, as enumerate())
    size_before,           \* delete_files_batch: local size_before
    deleted_count,         \* delete_files_batch: local deleted_count
    deleted_size,          \* delete_files_batch: local deleted_size
    failed_paths,          \* delete_files_batch: local failed_paths
    dlog,                  \* delete_files_batch: events sent and removals attempted, in order
    lim_in,                \* snapshotter: the input tree
    lim_depth,             \* snapshotter: max_depth
    lim_out,               \* snapshotter: Option of the result
    tick_calls,            \* history: per scan, calls of should_send_path_update so far
    tick_trues,            \* history: per scan, how many of them returned true
    touched,               \* history: per scan, <<what, path>> for each visit that marked its
                           \* inode ("mark"), incremented the counter ("count") or added a
                           \* size ("size")
    dk_build,              \* get_disk_info: the build, "macos" or "other"
    dk_disks,              \* get_disk_info: the disks sysinfo lists, in order
    dk_path,               \* get_disk_info: the path asked about (a string)
    dk_out                 \* get_disk_info: Option of the Option<DiskInfo> returned

scanVars == <<fsid, slot, ack, tpc, counter, scanned_size, compact_batch_buffer,
              visited_inodes, recursion_stack, cancelled, current_path,
              path_update_counter, disk_info, root_node, fstats, frames, msgs,
              cancel_result, cancel_acked>>
delVars == <<dpaths, dfs, dpc, dindex, size_before, deleted_count, deleted_size,
             failed_paths, dlog>>
limVars == <<lim_in, lim_depth, lim_out>>
histVars == <<tick_calls, tick_trues>>
traceVars == <<touched>>
diskVars == <<dk_build, dk_disks, dk_path, dk_out>>
vars == <<scanVars, delVars, limVars, histVars, traceVars, diskVars>>

Fs == FsOf(fsid)

\* ------------------------------------------------------------ ScanState
is_cancelled(s) == cancelled[s]

increment_counter_twice(c) == c + 2

\* main.rs:107
increment_counter(c) == c + 1

get_stats(s) == <<counter[s], scanned_size[s]>>

is_visited_inode_never(s, inode) == FALSE

is_visited_inode(s, inode) == inode \in visited_inodes[s]

is_in_recursion_stack(s, path) == path \in recursion_stack[s]

should_send_path_update_off_by_one(c) ==
    IF c + 1 > PATH_UPDATE_INTERVAL THEN [counter |-> 0, result |-> TRUE]
    ELSE [counter |-> c + 1, result |-> FALSE]

\* main.rs:196-205, under the lock: the new counter and the value returned
should_send_path_update(c) ==
    IF c + 1 >= PATH_UPDATE_INTERVAL THEN [counter |-> 0, result |-> TRUE]
    ELSE [counter |-> c + 1, result |-> FALSE]

\* ------------------------------------------------------------ disk info
\* is_root_directory looks at the shape of the path string ("/", "/mnt/x",
\* ...); the filesystem records what it answers for the scan root.
is_root_directory(fs) == fs.is_root

\* cfg(not(target_os = "macos")): the first disk whose mount point prefixes the path.
get_disk_info(fs, path) ==
    LET hits == {i \in 1..Len(fs.disks) : StartsWith(path, fs.disks[i].mount_point)}
    IN IF hits = {} THEN None
       ELSE LET d == fs.disks[CHOOSE i \in hits : \A j \in hits : i <= j]
            IN Some([total_space |-> d.total_space,
                     available_space |-> d.available_space,
                     used_space |-> d.total_space - d.available_space])

\* ------------------------------------------------------------ payloads
PartialScanResult(cn, st, complete, root, di, cp) ==
    [nodes |-> <<>>, compact_nodes |-> cn, total_scanned |-> st[1], total_size |-> st[2],
     is_complete |-> complete, root_node |-> root, compact_root |-> None,
     disk_info |-> di, current_path |-> cp]

\* main.rs:414
InitialPayload(di, path) == PartialScanResult(<<>>, <<0, 0>>, FALSE, None, di, Some(path))

\* main.rs:669
PathUpdatePayload(st, cp) == PartialScanResult(<<>>, st, FALSE, None, None, Some(cp))

\* main.rs:650
CompactBatchPayload(st, cn, cp) == PartialScanResult(cn, st, FALSE, None, None, Some(cp))

FinalBatchPayloadComplete(st, cn) == PartialScanResult(cn, st, TRUE, None, None, None)

\* main.rs:607
FinalBatchPayload(st, cn) == PartialScanResult(cn, st, FALSE, None, None, None)

RootMetadataWithChildren(root) ==
    FileNode(root.name, root.size, root.path, root.children, TRUE)

\* main.rs:622
RootMetadata(root) == FileNode(root.name, root.size, root.path, Some(<<>>), TRUE)

CompletionPayloadWithPath(st, root, di) ==
    PartialScanResult(<<>>, st, TRUE, Some(RootMetadata(root)), di, Some(root.path))

\* main.rs:630
CompletionPayload(st, root, di) ==
    PartialScanResult(<<>>, st, TRUE, Some(RootMetadata(root)), di, None)

Send(s, payload) == msgs' = [msgs EXCEPT ![s] = Append(@, payload)]

\* ------------------------------------------------------------ frames
Pending == None
Ok(node) == Some([ok |-> TRUE, node |-> Some(node), err |-> ""])
Err(e) == Some([ok |-> FALSE, node |-> None, err |-> e])

NewFrame(pc0, ret0) ==
    [pc |-> pc0, ret |-> ret0, stats |-> <<0, 0>>, cpath |-> <<>>, drained |-> <<>>,
     res |-> Pending]

F(s, p) == frames[s][p]

SetFrame(s, p, f) == frames' = [frames EXCEPT ![s][p] = f]

Return(s, p, r) == SetFrame(s, p, [F(s, p) EXCEPT !.pc = "done", !.res = r])

Goto(s, p, pc1) == SetFrame(s, p, [F(s, p) EXCEPT !.pc = pc1])

ChildPaths(p) ==
    LET o == Resolve(fsid, p)
        es == Fs.objs[o.ino].entries
    IN [i \in 1..Len(es) |-> p \o <<es[i].name>>]

RECURSIVE OkNodesKeepFailed(_, _)
OkNodesKeepFailed(s, paths) ==
    IF paths = <<>> THEN <<>>
    ELSE LET r == F(s, paths[1]).res[1]
         IN <<IF r.ok THEN r.node[1] ELSE GuardLeaf(paths[1])>>
            \o OkNodesKeepFailed(s, Tail(paths))

RECURSIVE OkNodes(_, _)
\* filter_map(|entry| scan_directory_recursive(..).ok()).collect(): main.rs:881-890
OkNodes(s, paths) ==
    IF paths = <<>> THEN <<>>
    ELSE LET r == F(s, paths[1]).res[1]
         IN (IF r.ok THEN <<r.node[1]>> ELSE <<>>) \o OkNodes(s, Tail(paths))

Range(f) == {f[i] : i \in DOMAIN f}

sessVars == <<counter, scanned_size, compact_batch_buffer, visited_inodes,
              recursion_stack, cancelled, current_path, path_update_counter>>
threadVars == <<fsid, slot, ack, tpc, disk_info, root_node, fstats, cancel_result,
                cancel_acked>>
otherVars == <<delVars, limVars, histVars, traceVars, diskVars>>

\* ------------------------------------------------------------ commands
scan_directory_streaming_spawn_first(s, path) ==
    /\ ack[s] = "none"
    /\ \A q \in ScanIds : q < s => ack[q] # "none"
    /\ Cardinality({q \in ScanIds : ack[q] # "none"}) < Quota(fsid)
    /\ ack' = [ack EXCEPT ![s] = IF ~Resolve(fsid, path).ok THEN "err" ELSE "ok"]
    /\ tpc' = [tpc EXCEPT ![s] = "spawned"]
    /\ UNCHANGED <<fsid, slot, disk_info, root_node, fstats, cancel_result, cancel_acked,
                   sessVars, frames, msgs, otherVars>>

\* scan_directory_streaming, main.rs:385-447: the request.  The path is
\* checked, the thread is spawned, Ok(()) is returned.
scan_directory_streaming(s, path) ==
    /\ ack[s] = "none"
    /\ \A q \in ScanIds : q < s => ack[q] # "none"
    /\ Cardinality({q \in ScanIds : ack[q] # "none"}) < Quota(fsid)
    /\ IF ~Resolve(fsid, path).ok
       THEN /\ ack' = [ack EXCEPT ![s] = "err"]
            /\ UNCHANGED tpc
       ELSE /\ ack' = [ack EXCEPT ![s] = "ok"]
            /\ tpc' = [tpc EXCEPT ![s] = "spawned"]
    /\ UNCHANGED <<fsid, slot, disk_info, root_node, fstats, cancel_result, cancel_acked,
                   sessVars, frames, msgs, otherVars>>

HasCompletion(s) == \E i \in 1..Len(msgs[s]) : msgs[s][i].is_complete

cancel_scan_all ==
    /\ IF slot # 0
       THEN /\ cancelled' = [s \in ScanIds |-> TRUE]
            /\ cancel_result' = "ok"
            /\ cancel_acked' = [cancel_acked EXCEPT
                                   ![slot] = @ \/ (tpc[slot] # "done" /\ ~HasCompletion(slot))]
       ELSE /\ cancel_result' = "err"
            /\ UNCHANGED <<cancelled, cancel_acked>>
    /\ UNCHANGED <<fsid, slot, ack, tpc, disk_info, root_node, fstats, counter, scanned_size,
                   compact_batch_buffer, visited_inodes, recursion_stack, current_path,
                   path_update_counter, frames, msgs, otherVars>>

\* cancel_scan, main.rs:450-460
cancel_scan ==
    /\ IF slot # 0
       THEN /\ cancelled' = [cancelled EXCEPT ![slot] = TRUE]
            /\ cancel_result' = "ok"
            /\ cancel_acked' = [cancel_acked EXCEPT
                                   ![slot] = @ \/ (tpc[slot] # "done" /\ ~HasCompletion(slot))]
       ELSE /\ cancel_result' = "err"
            /\ UNCHANGED <<cancelled, cancel_acked>>
    /\ UNCHANGED <<fsid, slot, ack, tpc, disk_info, root_node, fstats, counter, scanned_size,
                   compact_batch_buffer, visited_inodes, recursion_stack, current_path,
                   path_update_counter, frames, msgs, otherVars>>

\* ------------------------------------------------------------ scan thread
\* main.rs:393-399: ScanState::new() and its registration in the slot.
t_register(s) ==
    /\ tpc[s] = "spawned"
    /\ slot' = s
    /\ tpc' = [tpc EXCEPT ![s] = "disk"]
    /\ UNCHANGED <<fsid, ack, disk_info, root_node, fstats, cancel_result, cancel_acked,
                   sessVars, frames, msgs, otherVars>>

\* main.rs:401-428: disk info, the initial message, and the top-level call.
t_disk_info(s) ==
    /\ tpc[s] = "disk"
    /\ LET di == IF is_root_directory(Fs) THEN get_disk_info(Fs, RootPath) ELSE None
       IN /\ disk_info' = [disk_info EXCEPT ![s] = di]
          /\ IF di # None THEN Send(s, InitialPayload(di, RootPath)) ELSE UNCHANGED msgs
    /\ frames' = [frames EXCEPT ![s] = (RootPath :> NewFrame("start", ""))]
    /\ tpc' = [tpc EXCEPT ![s] = "walk"]
    /\ UNCHANGED <<fsid, slot, ack, root_node, fstats, cancel_result, cancel_acked,
                   sessVars, otherVars>>

\* main.rs:428-436: the top-level call has returned.
t_walk_return(s) ==
    /\ tpc[s] = "walk"
    /\ F(s, RootPath).pc = "done"
    /\ LET r == F(s, RootPath).res[1]
       IN IF r.ok
          THEN /\ root_node' = [root_node EXCEPT
                                   ![s] = Some(build_limited_depth_node(r.node[1], MAX_DEPTH))]
               /\ tpc' = [tpc EXCEPT ![s] = "final"]
          ELSE /\ tpc' = [tpc EXCEPT ![s] = "clear"]
               /\ UNCHANGED root_node
    /\ frames' = [frames EXCEPT ![s] = <<>>]
    /\ UNCHANGED <<fsid, slot, ack, disk_info, fstats, cancel_result, cancel_acked,
                   sessVars, msgs, otherVars>>

RootFilesDropped(root) == <<>>

\* send_final_batch, main.rs:593-603: the root's non-directory children
RootFiles(root) ==
    IF root.children = None THEN <<>>
    ELSE LET RECURSIVE pick(_)
             pick(cs) == IF cs = <<>> THEN <<>>
                         ELSE (IF ~cs[1].is_directory THEN <<to_compact_node(cs[1])>> ELSE <<>>)
                              \o pick(Tail(cs))
         IN pick(root.children[1])

\* send_final_batch, main.rs:589-619: the totals, the drained buffer plus
\* the root-level files, sent when there is anything to send.
t_final_batch(s) ==
    /\ tpc[s] = "final"
    /\ LET st == get_stats(s)
           remaining == compact_batch_buffer[s] \o RootFiles(root_node[s][1])
       IN /\ fstats' = [fstats EXCEPT ![s] = st]
          /\ compact_batch_buffer' = [compact_batch_buffer EXCEPT ![s] = <<>>]
          /\ IF remaining # <<>> THEN Send(s, FinalBatchPayload(st, remaining))
             ELSE UNCHANGED msgs
    /\ tpc' = [tpc EXCEPT ![s] = "complete"]
    /\ UNCHANGED <<fsid, slot, ack, disk_info, root_node, cancel_result, cancel_acked,
                   counter, scanned_size, visited_inodes, recursion_stack, cancelled,
                   current_path, path_update_counter, frames, otherVars>>

\* send_final_batch, main.rs:621-642: the completion message.
t_final_complete(s) ==
    /\ tpc[s] = "complete"
    /\ Send(s, CompletionPayload(fstats[s], root_node[s][1], disk_info[s]))
    /\ tpc' = [tpc EXCEPT ![s] = "clear"]
    /\ UNCHANGED <<fsid, slot, ack, disk_info, root_node, fstats, cancel_result,
                   cancel_acked, sessVars, frames, otherVars>>

t_clear_keep_slot(s) ==
    /\ tpc[s] = "clear"
    /\ tpc' = [tpc EXCEPT ![s] = "done"]
    /\ UNCHANGED <<fsid, slot, ack, disk_info, root_node, fstats, cancel_result, cancel_acked,
                   sessVars, frames, msgs, otherVars>>

\* main.rs:438-443: the slot is emptied, whichever session it holds.
t_clear(s) ==
    /\ tpc[s] = "clear"
    /\ slot' = 0
    /\ tpc' = [tpc EXCEPT ![s] = "done"]
    /\ UNCHANGED <<fsid, ack, disk_info, root_node, fstats, cancel_result, cancel_acked,
                   sessVars, frames, msgs, otherVars>>

\* ------------------------------------------------------------ walker
\* scan_directory_recursive(path), main.rs:715-930, one step per access to
\* the shared state.  fs::metadata follows symbolic links, so the file type
\* it reports is never a symlink: the branch main.rs:788-846 is never taken
\* and has no step here.  The size of a file is that of the object the
\* entry names.
Running(s, p) == p \in DOMAIN frames[s] /\ F(s, p).pc # "done"

\* main.rs:722-724
v_cancel_check(s, p) ==
    /\ p \in DOMAIN frames[s] /\ F(s, p).pc = "start"
    /\ IF is_cancelled(s) THEN Return(s, p, Err("Scan cancelled"))
       ELSE Goto(s, p, "setpath")
    /\ UNCHANGED <<threadVars, sessVars, msgs, otherVars>>

\* main.rs:729
v_set_current_path(s, p) ==
    /\ p \in DOMAIN frames[s] /\ F(s, p).pc = "setpath"
    /\ current_path' = [current_path EXCEPT ![s] = p]
    /\ Goto(s, p, "tick")
    /\ UNCHANGED <<threadVars, counter, scanned_size, compact_batch_buffer, visited_inodes,
                   recursion_stack, cancelled, path_update_counter, msgs, otherVars>>

\* should_send_path_update, main.rs:196-205, called at main.rs:732
v_should_send_path_update(s, p) ==
    /\ p \in DOMAIN frames[s] /\ F(s, p).pc = "tick"
    /\ path_update_counter' = [path_update_counter EXCEPT
                                  ![s] = should_send_path_update(@).counter]
    /\ IF should_send_path_update(path_update_counter[s]).result
       THEN SetFrame(s, p, [F(s, p) EXCEPT !.pc = "spu_stats", !.ret = "guards"])
       ELSE Goto(s, p, "guards")
    /\ tick_calls' = [tick_calls EXCEPT ![s] = @ + 1]
    /\ tick_trues' = [tick_trues EXCEPT
                         ![s] = @ + IF should_send_path_update(path_update_counter[s]).result
                                    THEN 1 ELSE 0]
    /\ UNCHANGED <<threadVars, counter, scanned_size, compact_batch_buffer, visited_inodes,
                   recursion_stack, cancelled, current_path, msgs, delVars, limVars,
                   traceVars, diskVars>>

\* send_path_update, main.rs:666
spu_get_stats(s, p) ==
    /\ p \in DOMAIN frames[s] /\ F(s, p).pc = "spu_stats"
    /\ SetFrame(s, p, [F(s, p) EXCEPT !.pc = "spu_path", !.stats = get_stats(s)])
    /\ UNCHANGED <<threadVars, sessVars, msgs, otherVars>>

\* send_path_update, main.rs:667
spu_get_current_path(s, p) ==
    /\ p \in DOMAIN frames[s] /\ F(s, p).pc = "spu_path"
    /\ SetFrame(s, p, [F(s, p) EXCEPT !.pc = "spu_send", !.cpath = current_path[s]])
    /\ UNCHANGED <<threadVars, sessVars, msgs, otherVars>>

\* send_path_update, main.rs:669-681; then on to the caller's next step
spu_send(s, p) ==
    /\ p \in DOMAIN frames[s] /\ F(s, p).pc = "spu_send"
    /\ Send(s, PathUpdatePayload(F(s, p).stats, F(s, p).cpath))
    /\ Goto(s, p, F(s, p).ret)
    /\ UNCHANGED <<threadVars, sessVars, otherVars>>

v_guards_unconfined(s, p) ==
    /\ p \in DOMAIN frames[s] /\ F(s, p).pc = "guards"
    /\ LET canonical_path == Resolve(fsid, p)
       IN IF canonical_path.ok /\ is_in_recursion_stack(s, canonical_path.canon)
          THEN Return(s, p, Ok(GuardLeaf(p)))
          ELSE Goto(s, p, "inode")
    /\ UNCHANGED <<threadVars, sessVars, msgs, otherVars>>

\* main.rs:738-763: the confinement check and the cycle check
v_guards(s, p) ==
    /\ p \in DOMAIN frames[s] /\ F(s, p).pc = "guards"
    /\ LET canonical_root == Resolve(fsid, RootPath)
           canonical_path == Resolve(fsid, p)
       IN IF canonical_root.ok /\ canonical_path.ok
             /\ ~StartsWith(canonical_path.canon, canonical_root.canon)
          THEN Return(s, p, Ok(GuardLeaf(p)))
          ELSE IF canonical_path.ok /\ is_in_recursion_stack(s, canonical_path.canon)
          THEN Return(s, p, Ok(GuardLeaf(p)))
          ELSE Goto(s, p, "inode")
    /\ UNCHANGED <<threadVars, sessVars, msgs, otherVars>>

\* main.rs:765-780: fs::metadata, then is_visited_inode
v_inode_check(s, p) ==
    /\ p \in DOMAIN frames[s] /\ F(s, p).pc = "inode"
    /\ LET metadata == Resolve(fsid, p)
       IN IF ~metadata.ok THEN Return(s, p, Err("io"))
          ELSE IF is_visited_inode(s, metadata.ino) THEN Return(s, p, Ok(GuardLeaf(p)))
          ELSE Goto(s, p, "mark")
    /\ UNCHANGED <<threadVars, sessVars, msgs, otherVars>>

\* mark_visited_inode, main.rs:781
v_mark_visited_inode(s, p) ==
    /\ p \in DOMAIN frames[s] /\ F(s, p).pc = "mark"
    /\ visited_inodes' = [visited_inodes EXCEPT ![s] = @ \cup {Resolve(fsid, p).ino}]
    /\ Goto(s, p, "count")
    /\ touched' = [touched EXCEPT ![s] = @ \cup {<<"mark", p>>}]
    /\ UNCHANGED <<threadVars, counter, scanned_size, compact_batch_buffer, recursion_stack,
                   cancelled, current_path, path_update_counter, msgs, delVars, limVars,
                   histVars, diskVars>>

\* main.rs:784-785
v_increment_counter(s, p) ==
    /\ p \in DOMAIN frames[s] /\ F(s, p).pc = "count"
    /\ counter' = [counter EXCEPT ![s] = increment_counter(@)]
    /\ Goto(s, p, "body")
    /\ touched' = [touched EXCEPT ![s] = @ \cup {<<"count", p>>}]
    /\ UNCHANGED <<threadVars, scanned_size, compact_batch_buffer, visited_inodes,
                   recursion_stack, cancelled, current_path, path_update_counter, msgs,
                   delVars, limVars, histVars, diskVars>>

v_file_without_add_size(s, p) ==
    /\ p \in DOMAIN frames[s] /\ F(s, p).pc = "body"
    /\ LET o == Fs.objs[Resolve(fsid, p).ino]
       IN /\ ~o.dir
          /\ Return(s, p, Ok(FileNode(FileName(p), o.size, p, None, FALSE)))
    /\ UNCHANGED <<threadVars, sessVars, msgs, otherVars>>

\* main.rs:848-864: a regular file
v_file(s, p) ==
    /\ p \in DOMAIN frames[s] /\ F(s, p).pc = "body"
    /\ LET o == Fs.objs[Resolve(fsid, p).ino]
       IN /\ ~o.dir
          /\ scanned_size' = [scanned_size EXCEPT ![s] = @ + o.size]
          /\ Return(s, p, Ok(FileNode(FileName(p), o.size, p, None, FALSE)))
    /\ touched' = [touched EXCEPT ![s] = @ \cup {<<"size", p>>}]
    /\ UNCHANGED <<threadVars, counter, compact_batch_buffer, visited_inodes,
                   recursion_stack, cancelled, current_path, path_update_counter, msgs,
                   delVars, limVars, histVars, diskVars>>

\* main.rs:867-890 and 921-929: a directory.  Unlistable: an empty directory
\* node.  Else its canonical path goes on the recursion stack and one visit
\* per entry is handed to the pool; a visit of a direct child of the root
\* starts with send_path_update (main.rs:885-887).
v_dir(s, p) ==
    /\ p \in DOMAIN frames[s] /\ F(s, p).pc = "body"
    /\ LET r == Resolve(fsid, p)
           o == Fs.objs[r.ino]
           kids == ChildPaths(p)
           first == IF p = RootPath THEN NewFrame("spu_stats", "start")
                    ELSE NewFrame("start", "")
       IN /\ o.dir
          /\ IF ~o.readable
             THEN /\ Return(s, p, Ok(FileNode(FileName(p), 0, p, Some(<<>>), TRUE)))
                  /\ UNCHANGED recursion_stack
             ELSE /\ recursion_stack' = [recursion_stack EXCEPT ![s] = @ \cup {r.canon}]
                  /\ frames' = [frames EXCEPT ![s] =
                                   [q \in DOMAIN @ \cup Range(kids) |->
                                       IF q = p THEN [@[p] EXCEPT !.pc = "join"]
                                       ELSE IF q \in Range(kids) THEN first ELSE @[q]]]
    /\ UNCHANGED <<threadVars, counter, scanned_size, compact_batch_buffer, visited_inodes,
                   cancelled, current_path, path_update_counter, msgs, otherVars>>

\* main.rs:890-906: every child has returned; the path leaves the recursion
\* stack and the directory node is built from the children that returned Ok.
v_join(s, p) ==
    /\ p \in DOMAIN frames[s] /\ F(s, p).pc = "join"
    /\ LET kids == ChildPaths(p)
       IN /\ \A k \in Range(kids) : F(s, k).pc = "done"
          /\ LET children == OkNodes(s, kids)
                 node == FileNode(FileName(p), DirTotalSize(children), p, Some(children), TRUE)
                 depth1 == Len(p) >= 2 /\ Parent(p) = RootPath
             IN frames' = [frames EXCEPT ![s] =
                              [q \in DOMAIN @ \ Range(kids) |->
                                  IF q = p
                                  THEN [@[p] EXCEPT !.pc = IF depth1 THEN "buffer" ELSE "done",
                                                    !.res = Ok(node)]
                                  ELSE @[q]]]
    /\ recursion_stack' = [recursion_stack EXCEPT ![s] = @ \ {Resolve(fsid, p).canon}]
    /\ UNCHANGED <<threadVars, counter, scanned_size, compact_batch_buffer, visited_inodes,
                   cancelled, current_path, path_update_counter, msgs, otherVars>>

\* main.rs:910-916 with add_compact_to_buffer, main.rs:125-132
v_add_compact_to_buffer(s, p) ==
    /\ p \in DOMAIN frames[s] /\ F(s, p).pc = "buffer"
    /\ LET buffer == Append(compact_batch_buffer[s], to_compact_node(F(s, p).res[1].node[1]))
       IN /\ compact_batch_buffer' = [compact_batch_buffer EXCEPT ![s] = buffer]
          /\ Goto(s, p, IF Len(buffer) >= BATCH_SIZE THEN "scb_stats" ELSE "done")
    /\ UNCHANGED <<threadVars, counter, scanned_size, visited_inodes, recursion_stack,
                   cancelled, current_path, path_update_counter, msgs, otherVars>>

\* send_compact_batch, main.rs:646
scb_get_stats(s, p) ==
    /\ p \in DOMAIN frames[s] /\ F(s, p).pc = "scb_stats"
    /\ SetFrame(s, p, [F(s, p) EXCEPT !.pc = "scb_clear", !.stats = get_stats(s)])
    /\ UNCHANGED <<threadVars, sessVars, msgs, otherVars>>

\* send_compact_batch, main.rs:647 with clear_compact_buffer, main.rs:134-140
scb_clear_compact_buffer(s, p) ==
    /\ p \in DOMAIN frames[s] /\ F(s, p).pc = "scb_clear"
    /\ SetFrame(s, p, [F(s, p) EXCEPT !.pc = "scb_path", !.drained = compact_batch_buffer[s]])
    /\ compact_batch_buffer' = [compact_batch_buffer EXCEPT ![s] = <<>>]
    /\ UNCHANGED <<threadVars, counter, scanned_size, visited_inodes, recursion_stack,
                   cancelled, current_path, path_update_counter, msgs, otherVars>>

\* send_compact_batch, main.rs:648
scb_get_current_path(s, p) ==
    /\ p \in DOMAIN frames[s] /\ F(s, p).pc = "scb_path"
    /\ SetFrame(s, p, [F(s, p) EXCEPT !.pc = "scb_send", !.cpath = current_path[s]])
    /\ UNCHANGED <<threadVars, sessVars, msgs, otherVars>>

\* send_compact_batch, main.rs:650-662
scb_send(s, p) ==
    /\ p \in DOMAIN frames[s] /\ F(s, p).pc = "scb_send"
    /\ Send(s, CompactBatchPayload(F(s, p).stats, F(s, p).drained, F(s, p).cpath))
    /\ Goto(s, p, "done")
    /\ UNCHANGED <<threadVars, sessVars, otherVars>>

scan_directory_recursive(s, p) ==
    \/ v_cancel_check(s, p)
    \/ v_set_current_path(s, p)
    \/ v_should_send_path_update(s, p)
    \/ spu_get_stats(s, p)
    \/ spu_get_current_path(s, p)
    \/ spu_send(s, p)
    \/ v_guards(s, p)
    \/ v_inode_check(s, p)
    \/ v_mark_visited_inode(s, p)
    \/ v_increment_counter(s, p)
    \/ v_file(s, p)
    \/ v_dir(s, p)
    \/ v_join(s, p)
    \/ v_add_compact_to_buffer(s, p)
    \/ scb_get_stats(s, p)
    \/ scb_clear_compact_buffer(s, p)
    \/ scb_get_current_path(s, p)
    \/ scb_send(s, p)

\* ------------------------------------------------------------ the scanner
ScanThread(s) ==
    \/ t_register(s)
    \/ t_disk_info(s)
    \/ t_walk_return(s)
    \/ t_final_batch(s)
    \/ t_final_complete(s)
    \/ t_clear(s)

ThreadStep ==
    \E s \in ScanIds :
        \/ ScanThread(s)
        \/ \E p \in DOMAIN frames[s] : scan_directory_recursive(s, p)

ScanNext ==
    \/ \E s \in ScanIds, path \in {RootPath, MissingPath} : scan_directory_streaming(s, path)
    \/ cancel_scan
    \/ ThreadStep

ScanIdle ==
    /\ slot = 0
    /\ ack = [s \in ScanIds |-> "none"]
    /\ tpc = [s \in ScanIds |-> "nothread"]
    /\ counter = [s \in ScanIds |-> 0]
    /\ scanned_size = [s \in ScanIds |-> 0]
    /\ compact_batch_buffer = [s \in ScanIds |-> <<>>]
    /\ visited_inodes = [s \in ScanIds |-> {}]
    /\ recursion_stack = [s \in ScanIds |-> {}]
    /\ cancelled = [s \in ScanIds |-> FALSE]
    /\ current_path = [s \in ScanIds |-> <<>>]
    /\ path_update_counter = [s \in ScanIds |-> 0]
    /\ disk_info = [s \in ScanIds |-> None]
    /\ root_node = [s \in ScanIds |-> None]
    /\ fstats = [s \in ScanIds |-> <<0, 0>>]
    /\ frames = [s \in ScanIds |-> <<>>]
    /\ msgs = [s \in ScanIds |-> <<>>]
    /\ cancel_result = "none"
    /\ cancel_acked = [s \in ScanIds |-> FALSE]
    /\ tick_calls = [s \in ScanIds |-> 0]
    /\ tick_trues = [s \in ScanIds |-> 0]
    /\ touched = [s \in ScanIds |-> {}]

DeleteIdle ==
    /\ dpaths = <<>>
    /\ dfs = <<>>
    /\ dpc = "nothread"
    /\ dindex = 0
    /\ size_before = 0
    /\ deleted_count = 0
    /\ deleted_size = 0
    /\ failed_paths = <<>>
    /\ dlog = <<>>

LimitIdle ==
    /\ lim_in = None
    /\ lim_depth = 0
    /\ lim_out = None

DiskIdle ==
    /\ dk_build = "other"
    /\ dk_disks = <<>>
    /\ dk_path = <<>>
    /\ dk_out = None

\* ------------------------------------------------------------ deletion
\* delete_files_batch, main.rs:475-556.  Paths are strings, modelled as
\* sequences of characters.  What a (normalized) path names is fixed per
\* path; whether it is there, and whether removing it is permitted, varies.
MaxPaths == 3

DelPaths == {<<"a">>, <<"b">>, <<"d", "/", "c">>, <<"d", "\\", "c">>}

\* path.replace("\\", "/"), main.rs:486
Normalize(path) == [i \in 1..Len(path) |-> IF path[i] = "\\" THEN "/" ELSE path[i]]

NormPaths == {Normalize(q) : q \in DelPaths}

DFile(sz) == [is_file |-> TRUE, size |-> sz, entries |-> <<>>]
DDir(es) == [is_file |-> FALSE, size |-> 0, entries |-> es]

DelObject(np) ==
    CASE np = <<"a">> -> DFile(3)
      [] np = <<"b">> -> DDir(<<DFile(2), DDir(<<DFile(4)>>)>>)
      [] OTHER -> DFile(7)

RECURSIVE calculate_dir_size(_)
\* main.rs:559-574
calculate_dir_size(o) ==
    LET RECURSIVE sum(_)
        sum(es) == IF es = <<>> THEN 0
                   ELSE (IF es[1].is_file THEN es[1].size ELSE calculate_dir_size(es[1]))
                        + sum(Tail(es))
    IN sum(o.entries)

\* main.rs:491-501
SizeBefore(np) ==
    IF dfs[np] # "missing"
    THEN IF DelObject(np).is_file THEN DelObject(np).size
         ELSE calculate_dir_size(DelObject(np))
    ELSE 0

DeletionProgress(cur, tot, cp, succ, comp, dsz, dcn) ==
    [kind |-> "event", current |-> cur, total |-> tot, current_path |-> cp,
     success |-> succ, completed |-> comp, deleted_size |-> dsz, deleted_count |-> dcn]

Attempt(np, sz, ok) == [kind |-> "attempt", path |-> np, size_before |-> sz, ok |-> ok]

all_success_any(failed) == TRUE

\* main.rs:538
all_success(failed) == failed = <<>>

\* main.rs:475-479: the request; the thread is spawned and Ok(()) returned.
delete_files_batch(paths) ==
    /\ dpc = "nothread"
    /\ dpaths' = paths
    /\ dpc' = "item"
    /\ dindex' = 0
    /\ UNCHANGED <<dfs, size_before, deleted_count, deleted_size, failed_paths, dlog,
                   scanVars, limVars, histVars, traceVars, diskVars>>

\* main.rs:484-513: size_before, then the progress event of the item.
d_progress ==
    /\ dpc = "item"
    /\ dindex < Len(dpaths)
    /\ LET np == Normalize(dpaths[dindex + 1])
       IN /\ size_before' = SizeBefore(np)
          /\ dlog' = Append(dlog, DeletionProgress(dindex + 1, Len(dpaths), np, FALSE, FALSE,
                                                   None, None))
    /\ dpc' = "remove"
    /\ UNCHANGED <<dpaths, dfs, dindex, deleted_count, deleted_size, failed_paths,
                   scanVars, limVars, histVars, traceVars, diskVars>>

d_remove_abort ==
    /\ dpc = "remove"
    /\ LET np == Normalize(dpaths[dindex + 1])
           ok == dfs[np] = "ok"
       IN /\ dlog' = Append(dlog, Attempt(np, size_before, ok))
          /\ IF ok
             THEN /\ dfs' = [dfs EXCEPT ![np] = "missing"]
                  /\ deleted_count' = deleted_count + 1
                  /\ deleted_size' = deleted_size + size_before
                  /\ dindex' = dindex + 1
                  /\ UNCHANGED failed_paths
             ELSE /\ failed_paths' = Append(failed_paths, np)
                  /\ dindex' = Len(dpaths)
                  /\ UNCHANGED <<dfs, deleted_count, deleted_size>>
    /\ dpc' = "item"
    /\ UNCHANGED <<dpaths, size_before, scanVars, limVars, histVars, traceVars, diskVars>>

\* main.rs:515-535: the removal attempt and its bookkeeping.  remove_file or
\* remove_dir_all succeeds when the path is there and removal is permitted;
\* a path that is neither a file nor a directory fails.
d_remove ==
    /\ dpc = "remove"
    /\ LET np == Normalize(dpaths[dindex + 1])
           ok == dfs[np] = "ok"
       IN /\ dlog' = Append(dlog, Attempt(np, size_before, ok))
          /\ IF ok
             THEN /\ dfs' = [dfs EXCEPT ![np] = "missing"]
                  /\ deleted_count' = deleted_count + 1
                  /\ deleted_size' = deleted_size + size_before
                  /\ UNCHANGED failed_paths
             ELSE /\ failed_paths' = Append(failed_paths, np)
                  /\ UNCHANGED <<dfs, deleted_count, deleted_size>>
    /\ dindex' = dindex + 1
    /\ dpc' = "item"
    /\ UNCHANGED <<dpaths, size_before, scanVars, limVars, histVars, traceVars, diskVars>>

\* main.rs:537-552: the completion event.
d_complete ==
    /\ dpc = "item"
    /\ dindex >= Len(dpaths)
    /\ dlog' = Append(dlog, DeletionProgress(Len(dpaths), Len(dpaths),
                                             IF all_success(failed_paths) THEN <<"done">>
                                             ELSE <<"done", Len(failed_paths)>>,
                                             all_success(failed_paths), TRUE,
                                             Some(deleted_size), Some(deleted_count)))
    /\ dpc' = "done"
    /\ UNCHANGED <<dpaths, dfs, dindex, size_before, deleted_count, deleted_size,
                   failed_paths, scanVars, limVars, histVars, traceVars, diskVars>>

RECURSIVE SeqsUpTo(_, _)
SeqsUpTo(S, n) ==
    IF n = 0 THEN {<<>>}
    ELSE LET shorter == SeqsUpTo(S, n - 1)
         IN shorter \cup {Append(q, x) : q \in shorter, x \in S}

DeleteNext ==
    \/ \E paths \in SeqsUpTo(DelPaths, MaxPaths) : delete_files_batch(paths)
    \/ d_progress
    \/ d_remove
    \/ d_complete

\* ------------------------------------------------------------ snapshotter
\* build_limited_depth_node applied to the trees the walker can build:
\* a directory has a children list and its size is their sum, a file has none.
MaxNodes == 5
MaxDepthArg == 3

ShapeSize(t) ==
    LET RECURSIVE cnt(_)
        cnt(x) == 1 + (LET RECURSIVE all(_)
                           all(ks) == IF ks = <<>> THEN 0 ELSE cnt(ks[1]) + all(Tail(ks))
                       IN all(x.kids))
    IN cnt(t)

RECURSIVE Shapes(_)
RECURSIVE Forests(_)
Shapes(n) ==
    IF n = 0 THEN {}
    ELSE {[dir |-> FALSE, kids |-> <<>>]} \cup {[dir |-> TRUE, kids |-> f] : f \in Forests(n - 1)}

Forests(n) ==
    IF n = 0 THEN {<<>>}
    ELSE {<<>>} \cup UNION {{<<t>> \o f : f \in Forests(n - ShapeSize(t))} : t \in Shapes(n)}

RECURSIVE TreeOf(_, _)
TreeOf(shape, path) ==
    IF ~shape.dir THEN FileNode(FileName(path), Len(path) + 1, path, None, FALSE)
    ELSE LET children == [i \in 1..Len(shape.kids) |->
                             TreeOf(shape.kids[i], Append(path, i))]
         IN FileNode(FileName(path), SumSizes(children), path, Some(children), TRUE)

Trees == {TreeOf(sh, <<0>>) : sh \in Shapes(MaxNodes)}

limit_apply ==
    /\ lim_out = None
    /\ lim_out' = Some(build_limited_depth_node(lim_in, lim_depth))
    /\ UNCHANGED <<lim_in, lim_depth, scanVars, delVars, histVars, traceVars, diskVars>>

Init ==
    /\ fsid \in FsIds
    /\ ScanIdle
    /\ DiskIdle
    /\ DeleteIdle
    /\ LimitIdle

Next == ScanNext

Spec == Init /\ [][Next]_vars

InitDelete ==
    /\ fsid = "one"
    /\ ScanIdle
    /\ DiskIdle
    /\ LimitIdle
    /\ dpaths = <<>>
    /\ dfs \in [NormPaths -> {"ok", "locked", "missing"}]
    /\ dpc = "nothread"
    /\ dindex = 0
    /\ size_before = 0
    /\ deleted_count = 0
    /\ deleted_size = 0
    /\ failed_paths = <<>>
    /\ dlog = <<>>

SpecDelete == InitDelete /\ [][DeleteNext]_vars

InitLimit ==
    /\ fsid = "one"
    /\ ScanIdle
    /\ DiskIdle
    /\ DeleteIdle
    /\ lim_in \in Trees
    /\ lim_depth \in 0..MaxDepthArg
    /\ lim_out = None

SpecLimit == InitLimit /\ [][limit_apply]_vars

\* Threads are scheduled fairly: a thread step that stays possible is taken.
\* The filesystems with a symbolic-link cycle.
InitCycle == Init /\ fsid \in {"cyc2", "deep"}

SpecCycle == InitCycle /\ [][Next]_vars /\ WF_vars(ThreadStep)

\* The same fairness, on the filesystems where scans overlap, complete, are
\* cancelled and end with the walker's error.
InitLife == Init /\ fsid \in {"one", "hl"}

SpecLife == InitLife /\ [][Next]_vars /\ WF_vars(ThreadStep)

\* ------------------------------------------------------------ properties
Completions(s) == {i \in 1..Len(msgs[s]) : msgs[s][i].is_complete}

WalkReturnedOk(s) == root_node[s] # None

\* C1: once cancel_scan has been accepted for a scan's session before the
\* scan's completion message was sent, no message with is_complete = true
\* is ever on that scan's channel.
C1_NoCompletionAfterCancel ==
    \A s \in ScanIds : cancel_acked[s] => Completions(s) = {}

\* C2: a message with is_complete = true is the last message of its scan,
\* and once it is sent the pending-batch buffer is empty and no visit is
\* running; every message before it is a heartbeat or a batch with
\* is_complete = false; a scan that ended without ever being cancelled has
\* sent exactly one completion message.
C2_CompletionLast ==
    \A s \in ScanIds :
        /\ \A i \in 1..Len(msgs[s]) :
              IF msgs[s][i].is_complete
              THEN /\ i = Len(msgs[s])
                   /\ compact_batch_buffer[s] = <<>>
                   /\ \A p \in DOMAIN frames[s] : ~Running(s, p)
              ELSE /\ msgs[s][i].root_node = None
                   /\ (msgs[s][i].compact_nodes # <<>> \/ msgs[s][i].current_path # None)
        /\ (tpc[s] = "done" /\ ~cancelled[s]) => Cardinality(Completions(s)) = 1

C2_Witness ==
    \E s \in ScanIds :
        /\ tpc[s] = "done" /\ ~cancelled[s]
        /\ Len(msgs[s]) >= 4
        /\ \E i, j \in 1..Len(msgs[s]) :
              /\ msgs[s][i].compact_nodes # <<>>
              /\ msgs[s][j].compact_nodes = <<>> /\ ~msgs[s][j].is_complete

\* C3: with two hard links h1, h2 to one file of 7 bytes, visited in
\* parallel, exactly one of the two entries carries the 7 bytes, the other
\* is a zero-size childless leaf, and the cumulative total is 7.
C3_HardLinkCountedOnce ==
    fsid = "hl" =>
        \A s \in ScanIds :
            (WalkReturnedOk(s) /\ Len(root_node[s][1].children[1]) = 2) =>
                LET kids == root_node[s][1].children[1]
                IN /\ scanned_size[s] = 7
                   /\ {kids[1].size, kids[2].size} = {0, 7}
                   /\ \A i \in 1..2 : kids[i].children = None

\* C4: on a filesystem with a symbolic-link cycle the top-level call of the
\* walker returns, no visit descends into a directory that a visit above it
\* is descending into, and a visit of an entry whose canonical path is that
\* of a directory being descended into above it returns a node of size 0
\* without children (or the cancellation error).
ProperPrefixes(p) == {SubSeq(p, 1, n) : n \in 1..(Len(p) - 1)}

ReEnters(s, p) ==
    /\ Resolve(fsid, p).ok
    /\ \E q \in ProperPrefixes(p) : Resolve(fsid, q).canon = Resolve(fsid, p).canon

C4_NoReentry ==
    \A s \in ScanIds : \A p \in DOMAIN frames[s] :
        ReEnters(s, p) =>
            /\ F(s, p).pc \notin {"mark", "count", "body", "join", "buffer"}
            /\ F(s, p).pc = "done" =>
                  \/ ~F(s, p).res[1].ok
                  \/ /\ F(s, p).res[1].node[1].size = 0
                     /\ F(s, p).res[1].node[1].children = None

C4_CycleTerminates ==
    /\ []C4_NoReentry
    /\ \A s \in ScanIds : (tpc[s] = "walk") ~> (tpc[s] # "walk")

C4_Witness ==
    \E s \in ScanIds :
        /\ fsid = "cyc2"
        /\ <<"r", "C", "A", "toB", "toA">> \in DOMAIN frames[s]
        /\ F(s, <<"r", "C", "A", "toB", "toA">>).pc = "done"
        /\ F(s, <<"r", "C", "A", "toB", "toA">>).res[1].ok
        /\ F(s, <<"r", "C", "A", "toB", "toA">>).res[1].node[1].size = 0
        /\ F(s, <<"r", "C", "A", "toB", "toA">>).res[1].node[1].children = None

\* C5: in every tree a visit returns, a directory node's size is the sum of
\* the sizes of its direct children, at every level, and a file node has no
\* children.
RECURSIVE SizesAddUp(_)
SizesAddUp(node) ==
    IF ~node.is_directory THEN node.children = None
    ELSE /\ node.children # None
         /\ LET cs == node.children[1]
                RECURSIVE total(_)
                total(i) == IF i = 0 THEN 0 ELSE cs[i].size + total(i - 1)
            IN /\ node.size = total(Len(cs))
               /\ \A i \in 1..Len(cs) : SizesAddUp(cs[i])

C5_DirSizeIsSumOfChildren ==
    \A s \in ScanIds :
        /\ root_node[s] # None => SizesAddUp(root_node[s][1])
        /\ \A p \in DOMAIN frames[s] :
              (F(s, p).res # Pending /\ F(s, p).res[1].ok) =>
                  SizesAddUp(F(s, p).res[1].node[1])

C5_Witness ==
    \E s \in ScanIds :
        /\ root_node[s] # None
        /\ root_node[s][1].size > 0
        /\ root_node[s][1].children # None
        /\ Len(root_node[s][1].children[1]) = 2
        /\ \E i \in 1..2 :
              /\ root_node[s][1].children[1][i].is_directory
              /\ root_node[s][1].children[1][i].size > 0

\* C6 (as amended): in the scenario root{A{a1:100}, f1:50}, the completion
\* message of a scan that was not cancelled reports total_size = 150 and
\* total_scanned = 4: f1, a1, the directory A and the scan root itself.
C6_TotalsCountRoot ==
    fsid = "scn" =>
        \A s \in ScanIds : \A i \in Completions(s) :
            ~cancelled[s] =>
                msgs[s][i].total_size = 150 /\ msgs[s][i].total_scanned = 4

\* C6 (as claimed): ... total_scanned = 3, the scan root not counted.
C6_TotalsSkipRoot ==
    fsid = "scn" =>
        \A s \in ScanIds : \A i \in Completions(s) :
            ~cancelled[s] =>
                msgs[s][i].total_size = 150 /\ msgs[s][i].total_scanned = 3

C6_Witness ==
    fsid = "scn" /\ \E s \in ScanIds : Completions(s) # {} /\ ~cancelled[s]

\* C7 (as amended): the completion message carries the snapshot root's
\* metadata only: its name, path and size, is_directory = true and an empty
\* children list.  In the scenario root{A{a1:100}, f1:50}, not cancelled,
\* that size is 150 and the root's two children, A (size 100, one child a1)
\* and f1 (size 50, no children), are the compact nodes of the batch sent
\* just before it.
ScnA == CompactFileNode("A", 100, Some(<<CompactFileNode("a1", 100, None, FALSE)>>), TRUE)
ScnF1 == CompactFileNode("f1", 50, None, FALSE)

RECURSIVE Positions(_)
Positions(node) ==
    {<<>>} \cup
    (IF node.children = None THEN {}
     ELSE UNION {{<<i>> \o q : q \in Positions(node.children[1][i])} :
                 i \in 1..Len(node.children[1])})

RECURSIVE NodeAt(_, _)
NodeAt(node, pos) ==
    IF pos = <<>> THEN node ELSE NodeAt(node.children[1][pos[1]], Tail(pos))

RECURSIVE SumOver(_, _)
SumOver(S, f) ==
    IF S = {} THEN 0 ELSE LET x == CHOOSE y \in S : TRUE IN f[x] + SumOver(S \ {x}, f)

FileBytes(t) ==
    LET sz == [pos \in Positions(t) |->
                  IF NodeAt(t, pos).is_directory THEN 0 ELSE NodeAt(t, pos).size]
    IN SumOver(Positions(t), sz)

C8_LimitedDepth ==
    lim_out # None =>
        LET t == lim_in
            o == lim_out[1]
            d == lim_depth
        IN /\ Positions(o) = {pos \in Positions(t) : Len(pos) <= d}
           /\ \A pos \in Positions(o) :
                 LET a == NodeAt(o, pos)
                     b == NodeAt(t, pos)
                 IN /\ a.name = b.name /\ a.path = b.path
                    /\ a.size = b.size /\ a.is_directory = b.is_directory
                    /\ (a.children # None) = a.is_directory
                    /\ (Len(pos) = d /\ a.is_directory) => a.children = Some(<<>>)
           /\ o.size = FileBytes(t)
           /\ (\A pos \in Positions(t) : Len(pos) <= d) => o = t

C8_Witness ==
    /\ lim_out # None
    /\ lim_depth >= 1
    /\ \E pos \in Positions(lim_in) :
          /\ Len(pos) = lim_depth
          /\ NodeAt(lim_in, pos).is_directory
          /\ NodeAt(lim_in, pos).children # Some(<<>>)
          /\ NodeAt(lim_in, pos).size > 0
          /\ NodeAt(lim_out[1], pos).size = NodeAt(lim_in, pos).size

\* C9: the deletion thread emits, for the N paths in the caller's order, the
\* in-progress event of item k (completed = false, current = k, no
\* aggregate fields) before the removal attempt of item k and after that of
\* item k-1, whether or not earlier removals failed, and then exactly one
\* event with completed = true, the last.
C9_ProgressOrder ==
    LET n == Len(dpaths)
    IN /\ Len(dlog) <= 2 * n + 1
       /\ dpc = "done" => Len(dlog) = 2 * n + 1
       /\ \A j \in 1..Len(dlog) :
             IF j = 2 * n + 1
             THEN dlog[j].kind = "event" /\ dlog[j].completed
             ELSE IF j % 2 = 1
             THEN /\ dlog[j].kind = "event"
                  /\ ~dlog[j].completed
                  /\ ~dlog[j].success
                  /\ dlog[j].current = (j + 1) \div 2
                  /\ dlog[j].total = n
                  /\ dlog[j].current_path = Normalize(dpaths[(j + 1) \div 2])
                  /\ dlog[j].deleted_size = None
                  /\ dlog[j].deleted_count = None
             ELSE /\ dlog[j].kind = "attempt"
                  /\ dlog[j].path = Normalize(dpaths[j \div 2])

C9_Witness ==
    /\ dpc = "done"
    /\ Len(dpaths) = 3
    /\ Len(dlog) = 7
    /\ dlog[2].ok /\ ~dlog[4].ok /\ dlog[6].ok

\* C10: in the completion event success is true exactly when no removal
\* failed, deleted_count is the number of removals that succeeded (which
\* with the failures makes N), and deleted_size is the sum of the sizes the
\* removed items had before their removal.
ObjectBytes(np) ==
    CASE np = <<"a">> -> 3
      [] np = <<"b">> -> 6
      [] OTHER -> 7

Attempts(ok) == {j \in 1..Len(dlog) : dlog[j].kind = "attempt" /\ dlog[j].ok = ok}

C10_Aggregate ==
    dpc = "done" =>
        LET c == dlog[Len(dlog)]
            bytes == [j \in Attempts(TRUE) |-> ObjectBytes(dlog[j].path)]
        IN /\ c.completed
           /\ c.success = (Attempts(FALSE) = {})
           /\ c.deleted_count = Some(Cardinality(Attempts(TRUE)))
           /\ Cardinality(Attempts(TRUE)) + Cardinality(Attempts(FALSE)) = Len(dpaths)
           /\ c.deleted_size = Some(SumOver(Attempts(TRUE), bytes))
           /\ c.total = Len(dpaths)

C10_Witness ==
    /\ dpc = "done"
    /\ Len(dpaths) = 3
    /\ dlog[2].ok /\ ~dlog[4].ok /\ dlog[6].ok
    /\ ~dlog[7].success
    /\ dlog[7].deleted_count = Some(2)
    /\ dlog[7].deleted_size = Some(10)

\* ------------------------------------------------------------ disk capacity
\* get_disk_info, main.rs:209-340, on the disks sysinfo lists.  Paths and
\* mount points are strings, modelled as sequences of characters.
MaxDisks == 2
MaxSpace == 2

StrRoot == <<"/">>
StrMnt == <<"/", "m", "n", "t", "/", "d">>
StrSysData == <<"/", "S", "y", "s", "t", "e", "m", "/", "V", "o", "l", "u", "m", "e", "s", "/", "D", "a", "t", "a">>
StrSysPreboot == <<"/", "S", "y", "s", "t", "e", "m", "/", "V", "o", "l", "u", "m", "e", "s", "/", "P", "r", "e", "b", "o", "o", "t">>
StrSysVM == <<"/", "S", "y", "s", "t", "e", "m", "/", "V", "o", "l", "u", "m", "e", "s", "/", "V", "M">>
StrSysUpdate == <<"/", "S", "y", "s", "t", "e", "m", "/", "V", "o", "l", "u", "m", "e", "s", "/", "U", "p", "d", "a", "t", "e">>

DiskInfo(total, available, used) ==
    [total_space |-> total, available_space |-> available, used_space |-> used]

\* main.rs:216-237: the longest mount point that prefixes the path, the
\* first of them in list order (0 when there is none)
best_match(disks, path_str) ==
    LET RECURSIVE scan(_, _)
        scan(i, best) ==
            IF i > Len(disks) THEN best
            ELSE IF StartsWith(path_str, disks[i].mount_point)
                    /\ (best = 0 \/ Len(disks[i].mount_point) > Len(disks[best].mount_point))
                 THEN scan(i + 1, i)
                 ELSE scan(i + 1, best)
    IN scan(1, 0)

\* main.rs:252-256
is_system_volume(dp) ==
    \/ dp = StrRoot
    \/ StartsWith(dp, StrSysData)
    \/ StartsWith(dp, StrSysPreboot)
    \/ StartsWith(dp, StrSysVM)
    \/ StartsWith(dp, StrSysUpdate)

\* main.rs:215-310, cfg(target_os = "macos")
get_disk_info_macos(disks, path_str) ==
    LET b == best_match(disks, path_str)
    IN IF b = 0 THEN None
       ELSE IF path_str = StrRoot /\ disks[b].mount_point = StrRoot
       THEN LET sys == {i \in 1..Len(disks) : is_system_volume(disks[i].mount_point)}
                last == CHOOSE i \in sys : \A j \in sys : j <= i
                RECURSIVE total_used(_)
                total_used(i) ==
                    IF i = 0 THEN 0
                    ELSE total_used(i - 1)
                         + IF i \in sys
                           THEN disks[i].total_space - disks[i].available_space ELSE 0
            IN Some(DiskInfo(disks[last].total_space, disks[last].available_space,
                             total_used(Len(disks))))
       ELSE Some(DiskInfo(disks[b].total_space, disks[b].available_space,
                          disks[b].total_space - disks[b].available_space))

\* main.rs:312-339, cfg(not(target_os = "macos"))
get_disk_info_other(disks, path_str) ==
    LET hits == {i \in 1..Len(disks) : StartsWith(path_str, disks[i].mount_point)}
    IN IF hits = {} THEN None
       ELSE LET d == disks[CHOOSE i \in hits : \A j \in hits : i <= j]
            IN Some(DiskInfo(d.total_space, d.available_space,
                             d.total_space - d.available_space))

DiskChoices ==
    {Disk(m, tot, av) : m \in {StrRoot, StrMnt, StrSysData},
                        tot \in 1..MaxSpace, av \in 0..MaxSpace}

dk_apply ==
    /\ dk_out = None
    /\ dk_out' = Some(IF dk_build = "macos" THEN get_disk_info_macos(dk_disks, dk_path)
                      ELSE get_disk_info_other(dk_disks, dk_path))
    /\ UNCHANGED <<dk_build, dk_disks, dk_path, scanVars, delVars, limVars, histVars, traceVars>>

InitDisk ==
    /\ fsid = "one"
    /\ ScanIdle
    /\ DeleteIdle
    /\ LimitIdle
    /\ dk_build \in {"macos", "other"}
    /\ dk_disks \in SeqsUpTo({d \in DiskChoices : d.available_space <= d.total_space}, MaxDisks)
    /\ dk_path \in {StrRoot, StrMnt}
    /\ dk_out = None

SpecDisk == InitDisk /\ [][dk_apply]_vars

\* ------------------------------------------------------------ heartbeat counter
\* should_send_path_update called by any number of workers on one session:
\* each call is one critical section of the counter's lock.
MaxTicks == 25

tick_call(s) ==
    /\ tick_calls[s] < MaxTicks
    /\ path_update_counter' = [path_update_counter EXCEPT
                                  ![s] = should_send_path_update(@).counter]
    /\ tick_calls' = [tick_calls EXCEPT ![s] = @ + 1]
    /\ tick_trues' = [tick_trues EXCEPT
                         ![s] = @ + IF should_send_path_update(path_update_counter[s]).result
                                    THEN 1 ELSE 0]
    /\ UNCHANGED <<threadVars, counter, scanned_size, compact_batch_buffer, visited_inodes,
                   recursion_stack, cancelled, current_path, frames, msgs, delVars, limVars,
                   traceVars, diskVars>>

\* The scans of the filesystem with three directories below the root.
InitBatch ==
    /\ fsid = "tri"
    /\ ScanIdle
    /\ DiskIdle
    /\ DeleteIdle
    /\ LimitIdle

SpecBatch == InitBatch /\ [][Next]_vars

\* The scans of the filesystem with links that leave the root.
InitConfine ==
    /\ fsid = "out"
    /\ ScanIdle
    /\ DiskIdle
    /\ DeleteIdle
    /\ LimitIdle

SpecConfine == InitConfine /\ [][Next]_vars

\* The scans of the root that holds a directory that cannot be listed.
InitUnlisted ==
    /\ fsid = "unl"
    /\ ScanIdle
    /\ DiskIdle
    /\ DeleteIdle
    /\ LimitIdle

SpecUnlisted == InitUnlisted /\ [][Next]_vars

InitTick == Init /\ fsid = "one"

TickNext == \E s \in ScanIds : tick_call(s)

SpecTick == InitTick /\ [][TickNext]_vars

\* C11: a start request on a path that does not exist returns the error at
\* once and changes nothing else: no thread exists for it, the slot keeps
\* what it held, nothing is ever sent on its channel.
C11_MissingRootNoEffect ==
    /\ [](\A s \in ScanIds :
            ack[s] = "err" =>
                /\ tpc[s] = "nothread"
                /\ slot # s
                /\ msgs[s] = <<>>
                /\ frames[s] = <<>>)
    /\ [][\A s \in ScanIds :
            (ack[s] = "none" /\ ack'[s] = "err") =>
                UNCHANGED <<fsid, slot, tpc, disk_info, root_node, fstats, frames, msgs,
                            cancel_result, sessVars>>]_vars

C11_Witness ==
    ack[2] = "err" /\ slot = 1 /\ tpc[1] = "walk"

\* C12: cancel_scan returns Ok exactly when the slot holds a session, and
\* then sets the flag of that session and of no other; with the slot empty
\* it returns the error and changes nothing; a flag that is set stays set.
C12_CancelFrame ==
    /\ [][\A s \in ScanIds : cancelled[s] => cancelled'[s]]_vars
    /\ [][cancelled' # cancelled =>
            /\ slot # 0
            /\ cancelled' = [cancelled EXCEPT ![slot] = TRUE]
            /\ cancel_result' = "ok"]_vars
    /\ [][cancel_result' # cancel_result =>
            IF slot # 0
            THEN /\ cancel_result' = "ok"
                 /\ cancelled' = [cancelled EXCEPT ![slot] = TRUE]
            ELSE /\ cancel_result' = "err"
                 /\ UNCHANGED <<fsid, slot, ack, tpc, disk_info, root_node, fstats, frames,
                                msgs, sessVars>>]_vars

C12_Witness ==
    /\ cancel_result = "ok"
    /\ cancelled[2] /\ ~cancelled[1]
    /\ tpc[1] \in {"walk", "final", "complete", "clear"}

\* C13: with two scans running, the first cancel_scan issued after the
\* second start request was acknowledged, and before the second scan has
\* ended, flags the second scan's session and not the first's.
C13_CancelTargetsNewest ==
    [][(/\ ack[1] = "ok" /\ ack[2] = "ok"
        /\ tpc[1] # "done" /\ tpc[2] # "done"
        /\ cancel_result = "none" /\ cancel_result' # "none")
       => (cancelled'[2] /\ ~cancelled'[1])]_vars

\* C14: a scan thread that was spawned ends (from some moment on every scan
\* thread that ever existed has ended, and a thread that exists never
\* ceases to), and once it has ended the slot does not hold its session;
\* when no scan thread is left the slot is empty and cancel_scan returns
\* the error.
NoThreadLeft == \A s \in ScanIds : tpc[s] \in {"nothread", "done"}

C14_Deregistered ==
    /\ [](\A s \in ScanIds : tpc[s] = "done" => slot # s)
    /\ [](NoThreadLeft => slot = 0)
    /\ [][(NoThreadLeft /\ cancel_result' # cancel_result) => cancel_result' = "err"]_vars
    /\ [][\A s \in ScanIds : tpc[s] # "nothread" => tpc'[s] # "nothread"]_vars
    /\ <>[]NoThreadLeft

C14_Witness ==
    \E s \in ScanIds :
        /\ tpc[s] = "done"
        /\ cancelled[s]
        /\ root_node[s] = None
        /\ slot = 0
        /\ cancel_result = "err"

\* C15: of the calls of should_send_path_update on one session, in the
\* order they take the lock, the k-th returns true exactly when k is a
\* multiple of 10: n calls give n \div 10 true results, and between calls
\* the counter is n % 10, within 0..9.
C15_EveryTenth ==
    /\ [](\A s \in ScanIds :
            /\ path_update_counter[s] \in 0..(PATH_UPDATE_INTERVAL - 1)
            /\ path_update_counter[s] = tick_calls[s] % PATH_UPDATE_INTERVAL
            /\ tick_trues[s] = tick_calls[s] \div PATH_UPDATE_INTERVAL)
    /\ [][\A s \in ScanIds :
            tick_calls'[s] # tick_calls[s] =>
                /\ tick_calls'[s] = tick_calls[s] + 1
                /\ (tick_trues'[s] = tick_trues[s] + 1)
                       <=> (tick_calls'[s] % PATH_UPDATE_INTERVAL = 0)
                /\ tick_trues'[s] \in {tick_trues[s], tick_trues[s] + 1}]_vars

C15_Witness ==
    tick_calls[1] = 20 /\ tick_trues[1] = 2 /\ tick_calls[2] = 7 /\ tick_trues[2] = 0

\* C16 (as amended): every message carries at least one kind of content,
\* and a root node never shares a message with compact nodes or a current
\* path: the completion message carries the root node only, the final batch
\* a non-empty batch only, a heartbeat and the initial disk-info message a
\* current path only; the batch sent when the buffer reached its threshold
\* carries the current path together with the drained compact nodes.
HasBatch(m) == m.compact_nodes # <<>>
HasRoot(m) == m.root_node # None \/ m.compact_root # None
HasHeartbeat(m) == m.current_path # None

C16_ShapesOfMessages ==
    \A s \in ScanIds : \A i \in 1..Len(msgs[s]) :
        LET m == msgs[s][i]
        IN /\ HasBatch(m) \/ HasRoot(m) \/ HasHeartbeat(m)
           /\ HasRoot(m) => ~HasBatch(m) /\ ~HasHeartbeat(m) /\ m.is_complete
           /\ m.is_complete => HasRoot(m)
           /\ (HasBatch(m) /\ HasHeartbeat(m)) => Len(m.compact_nodes) >= BATCH_SIZE
           /\ m.nodes = <<>>

\* C16 (as claimed): every message carries exactly one of a non-empty batch,
\* a root node, a current path.
C16_ExactlyOneShape ==
    \A s \in ScanIds : \A i \in 1..Len(msgs[s]) :
        LET m == msgs[s][i]
            n == (IF HasBatch(m) THEN 1 ELSE 0) + (IF HasRoot(m) THEN 1 ELSE 0)
                 + (IF HasHeartbeat(m) THEN 1 ELSE 0)
        IN n = 1

C16_Witness ==
    \E s \in ScanIds :
        /\ tpc[s] = "done"
        /\ \E i \in 1..Len(msgs[s]) : HasBatch(msgs[s][i]) /\ HasHeartbeat(msgs[s][i])
        /\ \E i \in 1..Len(msgs[s]) : HasRoot(msgs[s][i])

\* C17: every DiskInfo that get_disk_info returns has
\* used_space = total_space - available_space, whatever the scan root and
\* the disks listed (available <= total on each).
C17_UsedIsTotalMinusAvailable ==
    (dk_out # None /\ dk_out[1] # None) =>
        dk_out[1][1].used_space = dk_out[1][1].total_space - dk_out[1][1].available_space

\* C18: when a visit below a directory has returned the cancellation error,
\* the visit of that directory returns the cancellation error too, and so up
\* to the top-level call: it never returns an Ok node with that branch
\* missing.
C18_CancelPropagates ==
    [][\A s \in ScanIds : \A p \in DOMAIN frames[s] :
          (/\ F(s, p).pc = "join"
           /\ p \in DOMAIN frames'[s]
           /\ frames'[s][p].pc # "join"
           /\ \E k \in Range(ChildPaths(p)) :
                 /\ k \in DOMAIN frames[s]
                 /\ F(s, k).pc = "done"
                 /\ ~F(s, k).res[1].ok
                 /\ F(s, k).res[1].err = "Scan cancelled")
          => (/\ frames'[s][p].res # Pending
              /\ ~frames'[s][p].res[1].ok
              /\ frames'[s][p].res[1].err = "Scan cancelled")]_vars

\* C19: no batch sent during the walk (by send_compact_batch) carries more
\* than BATCH_SIZE compact nodes, and when no appender is between its append
\* and its drain the buffer holds fewer than BATCH_SIZE nodes.
InAppendAndSend(s) ==
    \E p \in DOMAIN frames[s] : F(s, p).pc \in {"scb_stats", "scb_clear"}

C19_BatchBounded ==
    \A s \in ScanIds :
        /\ \A i \in 1..Len(msgs[s]) :
              (~msgs[s][i].is_complete /\ msgs[s][i].current_path # None) =>
                  Len(msgs[s][i].compact_nodes) <= BATCH_SIZE
        /\ ~InAppendAndSend(s) => Len(compact_batch_buffer[s]) < BATCH_SIZE

\* C20: the directory entries at the top level of the buffer, of a drained
\* batch not yet sent and of the batches sent are directories that are
\* direct children of the scan root, each there once, and each the compact
\* form of the node its visit has built after joining its children; the
\* root and the directories further down are not among them.
DirsNamed(nodes, n) == {i \in 1..Len(nodes) : nodes[i].is_directory /\ nodes[i].name = n}

Draining(s) == {p \in DOMAIN frames[s] : F(s, p).pc \in {"scb_path", "scb_send"}}

TimesBatched(s, n) ==
    Cardinality(DirsNamed(compact_batch_buffer[s], n))
    + SumOver(Draining(s), [p \in Draining(s) |-> Cardinality(DirsNamed(F(s, p).drained, n))])
    + SumOver(1..Len(msgs[s]),
              [i \in 1..Len(msgs[s]) |-> Cardinality(DirsNamed(msgs[s][i].compact_nodes, n))])

BatchedDir(s, e) ==
    LET p == RootPath \o <<e.name>>
    IN /\ Resolve(fsid, p).ok
       /\ Fs.objs[Resolve(fsid, p).ino].dir
       /\ TimesBatched(s, e.name) = 1
       /\ p \in DOMAIN frames[s] =>
              /\ F(s, p).pc \in {"scb_stats", "scb_clear", "scb_path", "scb_send", "done"}
              /\ F(s, p).res # Pending
              /\ F(s, p).res[1].ok
              /\ to_compact_node(F(s, p).res[1].node[1]) = e

C20_OnlyDepth1DirsBatched ==
    \A s \in ScanIds :
        /\ \A i \in 1..Len(compact_batch_buffer[s]) :
              /\ compact_batch_buffer[s][i].is_directory
              /\ BatchedDir(s, compact_batch_buffer[s][i])
        /\ \A p \in Draining(s) : \A i \in 1..Len(F(s, p).drained) :
              /\ F(s, p).drained[i].is_directory
              /\ BatchedDir(s, F(s, p).drained[i])
        /\ \A j \in 1..Len(msgs[s]) : \A i \in 1..Len(msgs[s][j].compact_nodes) :
              msgs[s][j].compact_nodes[i].is_directory =>
                  BatchedDir(s, msgs[s][j].compact_nodes[i])

C20_Witness ==
    \E s \in ScanIds :
        /\ fsid = "cyc2"
        /\ tpc[s] = "done"
        /\ \E j \in 1..Len(msgs[s]) :
              /\ Len(msgs[s][j].compact_nodes) = 1
              /\ msgs[s][j].compact_nodes[1].name = "C"
              /\ Len(msgs[s][j].compact_nodes[1].children[1]) = 2


\* ------------------------------------------------------------ C21
IsFileNode(n) == ~n.is_directory

\* the non-directory direct children of the root of the walker's tree, compact
RootLevelFiles(s) ==
    IF root_node[s][1].children = None THEN <<>>
    ELSE LET fs == SelectSeq(root_node[s][1].children[1], IsFileNode)
         IN [i \in 1..Len(fs) |-> to_compact_node(fs[i])]

FinalBatchShape(m) == ~m.is_complete /\ m.current_path = None

NoFileAtTop(nodes) == \A j \in 1..Len(nodes) : nodes[j].is_directory

\* C21: no batch sent while the walker runs, and nothing waiting to be sent
\* by it, has a non-directory node at its top level; the step after the
\* walk sends the remaining buffer followed by all root-level files as one
\* message with is_complete = false, or nothing when both are empty; on a
\* scan with a completion message that batch, if any, is the message right
\* before the completion message and the only one that holds the root-level
\* files.
C21_RootFilesInFinalBatch ==
    /\ [](\A s \in ScanIds :
            /\ NoFileAtTop(compact_batch_buffer[s])
            /\ \A p \in DOMAIN frames[s] : NoFileAtTop(F(s, p).drained)
            /\ \A i \in 1..Len(msgs[s]) :
                  (msgs[s][i].current_path # None \/ tpc[s] \in {"disk", "walk", "final"})
                      => NoFileAtTop(msgs[s][i].compact_nodes)
            /\ \A k \in Completions(s) :
                  /\ \A i \in 1..Len(msgs[s]) :
                        FinalBatchShape(msgs[s][i]) =>
                            /\ i = k - 1
                            /\ msgs[s][i].compact_nodes # <<>>
                            /\ SelectSeq(msgs[s][i].compact_nodes, IsFileNode)
                                  = RootLevelFiles(s)
                  /\ RootLevelFiles(s) # <<>> =>
                        k > 1 /\ FinalBatchShape(msgs[s][k - 1]))
    /\ [][\A s \in ScanIds :
            (tpc[s] = "final" /\ tpc'[s] # "final") =>
                LET remaining == compact_batch_buffer[s] \o RootLevelFiles(s)
                IN /\ compact_batch_buffer'[s] = <<>>
                   /\ IF remaining = <<>> THEN msgs'[s] = msgs[s]
                      ELSE /\ Len(msgs'[s]) = Len(msgs[s]) + 1
                           /\ SubSeq(msgs'[s], 1, Len(msgs[s])) = msgs[s]
                           /\ msgs'[s][Len(msgs'[s])].compact_nodes = remaining
                           /\ FinalBatchShape(msgs'[s][Len(msgs'[s])])]_vars

C21_Witness ==
    \E s \in ScanIds : \E k \in Completions(s) :
        /\ k > 1
        /\ FinalBatchShape(msgs[s][k - 1])
        /\ Len(msgs[s][k - 1].compact_nodes) = 2
        /\ NoFileAtTop(<<msgs[s][k - 1].compact_nodes[1]>>)
        /\ RootLevelFiles(s) # <<>>
        /\ msgs[s][k - 1].compact_nodes[2] = RootLevelFiles(s)[1]


\* ------------------------------------------------------------ C22
ReadFailed(s, p) ==
    /\ p \in DOMAIN frames[s]
    /\ F(s, p).res # Pending
    /\ ~F(s, p).res[1].ok
    /\ F(s, p).res[1].err = "io"

Succeeded(s, p) == F(s, p).res # Pending /\ F(s, p).res[1].ok

\* the sizes of the visits among paths that returned a node
RECURSIVE SizeOfSucceeded(_, _)
SizeOfSucceeded(s, paths) ==
    IF paths = <<>> THEN 0
    ELSE (IF Succeeded(s, paths[1]) THEN F(s, paths[1]).res[1].node[1].size ELSE 0)
         + SizeOfSucceeded(s, Tail(paths))

\* C22: a visit that failed with a read error has marked no inode, counted
\* nothing and added no size, and the step in which it fails leaves the
\* counter, the cumulative size and the visited inodes as they were; the
\* visit of its parent returns a directory node whose children are exactly
\* the entries whose visits returned a node, in order, and whose size is
\* the sum of theirs; the top-level call returns an error only on a
\* cancelled session, and only then is the walk abandoned without a
\* completion message.
C22_ReadErrorSkipsChild ==
    /\ [](\A s \in ScanIds :
            /\ \A p \in DOMAIN frames[s] :
                  ReadFailed(s, p) =>
                      /\ p # RootPath
                      /\ \A k \in {"mark", "count", "size"} : <<k, p>> \notin touched[s]
            /\ (RootPath \in DOMAIN frames[s] /\ F(s, RootPath).res # Pending
                    /\ ~F(s, RootPath).res[1].ok)
                  => (cancelled[s] /\ F(s, RootPath).res[1].err = "Scan cancelled"))
    /\ [][\A s \in ScanIds :
            /\ \A p \in DOMAIN frames[s] :
                  (p \in DOMAIN frames'[s] /\ ~ReadFailed(s, p) /\ ReadFailed(s, p)') =>
                      /\ counter'[s] = counter[s]
                      /\ scanned_size'[s] = scanned_size[s]
                      /\ visited_inodes'[s] = visited_inodes[s]
            /\ \A p \in DOMAIN frames[s] :
                  (F(s, p).pc = "join" /\ p \in DOMAIN frames'[s] /\ F(s, p)'.pc # "join") =>
                      LET kids == ChildPaths(p)
                          good == SelectSeq(kids, LAMBDA k : Succeeded(s, k))
                          node == F(s, p)'.res[1].node[1]
                      IN /\ F(s, p)'.res[1].ok
                         /\ node.is_directory
                         /\ node.children # None
                         /\ Len(node.children[1]) = Len(good)
                         /\ \A i \in 1..Len(good) : node.children[1][i].path = good[i]
                         /\ node.size = SizeOfSucceeded(s, kids)
                         /\ \A k \in Range(kids) :
                               ReadFailed(s, k) =>
                                   \A i \in 1..Len(node.children[1]) :
                                       node.children[1][i].name # FileName(k)
            /\ (tpc[s] = "walk" /\ tpc'[s] = "clear") => cancelled[s]]_vars

C22_Witness ==
    \E s \in ScanIds :
        /\ fsid = "bad"
        /\ ~cancelled[s]
        /\ <<"r", "D">> \in DOMAIN frames[s]
        /\ <<"r", "D", "dead">> \notin DOMAIN frames[s]
        /\ Succeeded(s, <<"r", "D">>)
        /\ Len(F(s, <<"r", "D">>).res[1].node[1].children[1]) = 3
        /\ F(s, <<"r", "D">>).res[1].node[1].size = 4
        /\ <<"count", <<"r", "D", "g">>>> \in touched[s]
        /\ <<"count", <<"r", "D", "dead">>>> \notin touched[s]


\* ------------------------------------------------------------ C23
\* the visits that are between their push and their pop of canonical path c
Descending(s, c) ==
    {p \in DOMAIN frames[s] : F(s, p).pc = "join" /\ Resolve(fsid, p).canon = c}

CanonicalPaths(s) ==
    recursion_stack[s] \cup {Resolve(fsid, p).canon : p \in DOMAIN frames[s]}

\* C23: a canonical path is on a session's recursion stack exactly when
\* some visit of that session is descending into that directory, and the
\* stack is empty once the top-level call has returned.
C23_StackIffDescending ==
    \A s \in ScanIds :
        /\ \A c \in CanonicalPaths(s) :
              (c \in recursion_stack[s]) <=> (Descending(s, c) # {})
        /\ (RootPath \notin DOMAIN frames[s] \/ F(s, RootPath).pc = "done")
              => recursion_stack[s] = {}


\* ------------------------------------------------------------ C24
\* the entry resolves, and to a canonical path outside the root's
Outside(p) ==
    /\ Resolve(fsid, p).ok
    /\ ~StartsWith(Resolve(fsid, p).canon, Resolve(fsid, RootPath).canon)

SizedPaths(s) == {e[2] : e \in {x \in touched[s] : x[1] = "size"}}

\* C24: the visit of an entry whose canonical path is outside the root's
\* never gets past the confinement check: it marks no inode, counts nothing,
\* adds no size, and returns a node of size 0 without children (or the
\* cancellation error); no visit runs below such an entry; the
\* cumulative size is the sum of the sizes added by visits of regular
\* files whose canonical path is inside the root's.
C24_Confinement ==
    \A s \in ScanIds :
        /\ \A p \in DOMAIN frames[s] :
              /\ Outside(p) =>
                    /\ F(s, p).pc \in {"start", "setpath", "tick", "spu_stats", "spu_path",
                                       "spu_send", "guards", "done"}
                    /\ \A k \in {"mark", "count", "size"} : <<k, p>> \notin touched[s]
                    /\ F(s, p).pc = "done" =>
                          \/ /\ ~F(s, p).res[1].ok
                             /\ F(s, p).res[1].err = "Scan cancelled"
                          \/ /\ F(s, p).res[1].ok
                             /\ F(s, p).res[1].node[1].size = 0
                             /\ F(s, p).res[1].node[1].children = None
                             /\ ~F(s, p).res[1].node[1].is_directory
              /\ \A q \in ProperPrefixes(p) : ~Outside(q)
        /\ \A e \in touched[s] : ~Outside(e[2])
        /\ scanned_size[s] =
              SumOver(SizedPaths(s),
                      [p \in SizedPaths(s) |-> Fs.objs[Resolve(fsid, p).ino].size])

C24_Witness ==
    \E s \in ScanIds :
        /\ fsid = "out"
        /\ ~cancelled[s]
        /\ <<"r", "D", "ext">> \in DOMAIN frames[s]
        /\ <<"r", "D", "extf">> \in DOMAIN frames[s]
        /\ Succeeded(s, <<"r", "D", "ext">>)
        /\ Succeeded(s, <<"r", "D", "extf">>)
        /\ Succeeded(s, <<"r", "D", "in">>)
        /\ scanned_size[s] = 3
        /\ counter[s] = 3


\* ------------------------------------------------------------ C25
\* C25: the total_size of a completion message is the size of the root node
\* it carries, and from the return of the walk on the session's cumulative
\* size is the size of the tree the walk returned.
C25_TotalSizeIsRootSize ==
    \A s \in ScanIds :
        /\ \A i \in Completions(s) :
              /\ msgs[s][i].root_node # None
              /\ msgs[s][i].total_size = msgs[s][i].root_node[1].size
        /\ (RootPath \in DOMAIN frames[s] /\ Succeeded(s, RootPath)) =>
              scanned_size[s] = F(s, RootPath).res[1].node[1].size
        /\ WalkReturnedOk(s) => scanned_size[s] = root_node[s][1].size

C25_Witness ==
    \E s \in ScanIds : \E i \in Completions(s) :
        /\ fsid = "scn"
        /\ cancelled[s]
        /\ msgs[s][i].total_size = 50
        /\ msgs[s][i].root_node[1].size = 50


\* ------------------------------------------------------------ C26
\* where, before message k of scan s, a top-level compact node named n was sent
Deliveries(s, k, n) ==
    {d \in UNION {{<<m, j>> : j \in 1..Len(msgs[s][m].compact_nodes)} : m \in 1..(k - 1)} :
        msgs[s][d[1]].compact_nodes[d[2]].name = n}

\* C26: when a scan has sent its completion message, every direct child of
\* the root of the walker's tree was sent before it as a top-level compact
\* node of exactly one batch, once.
C26_EachChildDeliveredOnce ==
    \A s \in ScanIds : \A k \in Completions(s) :
        root_node[s][1].children # None =>
            \A i \in 1..Len(root_node[s][1].children[1]) :
                LET kid == root_node[s][1].children[1][i]
                IN /\ Cardinality(Deliveries(s, k, kid.name)) = 1
                   /\ \A d \in Deliveries(s, k, kid.name) :
                         msgs[s][d[1]].compact_nodes[d[2]] = to_compact_node(kid)


\* ------------------------------------------------------------ C27
\* C27: in the order in which a scan's messages were sent, total_scanned and
\* total_size never decrease, and a completion message carries the
\* session's final counter and cumulative size.
C27_TotalsNeverGoBack ==
    \A s \in ScanIds :
        /\ \A i, j \in 1..Len(msgs[s]) :
              i < j =>
                  /\ msgs[s][i].total_scanned <= msgs[s][j].total_scanned
                  /\ msgs[s][i].total_size <= msgs[s][j].total_size
        /\ \A k \in Completions(s) :
              /\ msgs[s][k].total_scanned = counter[s]
              /\ msgs[s][k].total_size = scanned_size[s]

====
